---- MODULE Spec2Model ----
(***************************************************************************)
(* Model of data/process_real.py: the AHS 2019 accessibility pipeline.     *)
(*                                                                         *)
(*   load_and_process_data  ->  generate_summaries  ->  export_json        *)
(*                                                                         *)
(* The input file is the environment: its header and its rows are chosen   *)
(* in Init.  Python floats are IEEE-754 binary64; TLC has 32-bit integers, *)
(* so a float is modelled with the same rounding rule (round to nearest,   *)
(* ties to even) on a shortened mantissa of MantBits bits.  A float value  *)
(* x is held as the integer x * Scale.                                     *)
(***************************************************************************)
EXTENDS Integers, Sequences, FiniteSets, TLC

VARIABLES
    input_columns,   \* header of ahs2019n.csv
    input_rows,      \* rows of ahs2019n.csv, one per housing unit
    df,              \* DataFrame returned by load_and_process_data
    by_age,          \* data["by_age"]
    by_structure,    \* data["by_structure"]
    metadata,        \* data["metadata"]
    files,           \* state of the three output files of this run
    pc               \* position of __main__

vars == <<input_columns, input_rows, df, by_age, by_structure, metadata, files, pc>>

(***************************************************************************)
(* Bounds                                                                  *)
(***************************************************************************)
MaxRows == 2
MantBits == 8

(***************************************************************************)
(* Values                                                                  *)
(***************************************************************************)
\* float NaN (pd.to_numeric(errors='coerce') of an empty or non-numeric cell)
NaN == [nan |-> TRUE]
Num(n) == [nan |-> FALSE, val |-> n]

\* a missing cell of a dtype=str column; strings are sequences of characters
StrNaN == <<"NaN">>

\* Python None / NaN in the derived label columns
None == "<None>"

Quote(s) == <<"'">> \o s \o <<"'">>

(***************************************************************************)
(* Floating point: round to nearest, ties to even, MantBits-bit mantissa   *)
(***************************************************************************)
RECURSIVE Pow2(_)
Pow2(k) == IF k <= 0 THEN 1 ELSE 2 * Pow2(k - 1)

RECURSIVE BitLength(_)
BitLength(n) == IF n = 0 THEN 0 ELSE 1 + BitLength(n \div 2)

\* values in [64, 128), where 100 lies, carry exactly MantBits bits
Scale == Pow2(MantBits - 7)

\* the float nearest to the rational a / b (in units of 1 / Scale)
RoundFloat(a, b) ==
    LET q    == a \div b
        sh   == IF BitLength(q) > MantBits THEN BitLength(q) - MantBits ELSE 0
        u    == Pow2(sh)
        m    == a \div (b * u)
        rem  == a - m * b * u
        half == b * u
        up   == \/ 2 * rem > half
                \/ 2 * rem = half /\ m % 2 = 1
    IN  (IF up THEN m + 1 ELSE m) * u

FloatAdd(x, y) == RoundFloat(x + y, 1)
FloatMul(x, y) == RoundFloat(x * y, Scale)
\* numpy float division: 0.0 / 0.0 is nan, no exception
FloatDiv(x, y) == IF y = 0 THEN NaN ELSE Num(RoundFloat(x * Scale, y))

\* Series.sum(): left-to-right float addition
RECURSIVE FloatSum(_)
FloatSum(s) ==
    IF s = <<>> THEN 0
    ELSE FloatAdd(FloatSum(SubSeq(s, 1, Len(s) - 1)), s[Len(s)])

F100 == 100 * Scale

RECURSIVE Concat(_)
Concat(ss) == IF ss = <<>> THEN <<>> ELSE Head(ss) \o Concat(Tail(ss))

(***************************************************************************)
(* Module-level tables of process_real.py                                  *)
(***************************************************************************)
UNITSIZE_BROAD(code) ==
    CASE code = <<"1">> -> "Single-family detached"
      [] code = <<"2">> -> "Single-family attached"
      [] code = <<"3">> -> "2-4 units"
      [] code = <<"4">> -> "2-4 units"
      [] code = <<"5">> -> "5-49 units"
      [] code = <<"6">> -> "5-49 units"
      [] code = <<"7">> -> "5-49 units"
      [] code = <<"8">> -> "50+ units"
      [] code = <<"9">> -> "Mobile home/other"
      [] OTHER -> None

\* a cut point taken with <= instead of <
categorize_age_inclusive(year_built) ==
    IF year_built.nan \/ year_built.val < 0 THEN None
    ELSE IF year_built.val <= 1960 THEN "Before 1960"
    ELSE IF year_built.val < 1980 THEN "1960-1979"
    ELSE IF year_built.val < 2000 THEN "1980-1999"
    ELSE IF year_built.val < 2010 THEN "2000-2009"
    ELSE "2010 or later"

categorize_age(year_built) ==
    IF year_built.nan \/ year_built.val < 0 THEN None
    ELSE IF year_built.val < 1960 THEN "Before 1960"
    ELSE IF year_built.val < 1980 THEN "1960-1979"
    ELSE IF year_built.val < 2000 THEN "1980-1999"
    ELSE IF year_built.val < 2010 THEN "2000-2009"
    ELSE "2010 or later"

ACCESSIBILITY_VARS == <<
    [var |-> "NOSTEP",      name |-> "No-step entrance"],
    [var |-> "HARAMP",      name |-> "Wheelchair ramp"],
    [var |-> "MHWIDE",      name |-> "Wide doorways/hallways"],
    [var |-> "HMRACCESS",   name |-> "Accessible bathroom"],
    [var |-> "HABEDENTRY",  name |-> "Bedroom on entry level"],
    [var |-> "HABATHENTRY", name |-> "Bathroom on entry level"] >>

DIFFICULTY_VARS == <<"HAGETHOME", "HAGETKIT", "HAGETBATH", "HAGETBED">>

accessibility_needs_vars ==
    <<"CANE", "HAGETHOME", "HAGETKIT", "HAGETBATH", "HAGETBED", "HHWALK">>

Range(s) == {s[i] : i \in DOMAIN s}

columns_needed ==
    {"WEIGHT", "YRBUILT", "UNITSIZE"}
        \cup {v.var : v \in Range(ACCESSIBILITY_VARS)}
        \cup Range(DIFFICULTY_VARS)
        \cup Range(accessibility_needs_vars)

FeatureCols == {v.var : v \in Range(ACCESSIBILITY_VARS)}
NeedCols == Range(accessibility_needs_vars)
NumericCols == {"WEIGHT", "YRBUILT"}

S1 == <<"1">>
S2 == <<"2">>

(***************************************************************************)
(* load_and_process_data                                                   *)
(***************************************************************************)
\* str.strip("'"): drop leading and trailing quote characters; NaN stays NaN
RECURSIVE LStrip(_)
LStrip(s) == IF s # <<>> /\ Head(s) = "'" THEN LStrip(Tail(s)) ELSE s

RECURSIVE RStrip(_)
RStrip(s) ==
    IF s # <<>> /\ s[Len(s)] = "'" THEN RStrip(SubSeq(s, 1, Len(s) - 1)) ELSE s

Strip(s) == IF s = StrNaN THEN StrNaN ELSE RStrip(LStrip(s))

\* lines 101-121: cleaned codes and the three derived columns of one row
RecodeRow(r) ==
    LET cols == DOMAIN r
        c    == [k \in cols |-> IF k \in NumericCols THEN r[k] ELSE Strip(r[k])]
        ind  == {v \in NeedCols : v \in cols}
    IN  c @@ [age_category            |-> categorize_age(c["YRBUILT"]),
              structure_type          |-> UNITSIZE_BROAD(c["UNITSIZE"]),
              has_accessibility_needs |-> IF ind # {}
                                          THEN \E v \in ind : c[v] = S1
                                          ELSE FALSE]

\* the weight test taken with >= instead of >
NonNegativeWeight(r) == ~r["WEIGHT"].nan /\ r["WEIGHT"].val >= 0

\* the age filter left out
AgeNotFiltered(r) == TRUE

\* the structure filter left out
StructureNotFiltered(r) == TRUE

\* line 124: df[df['WEIGHT'] > 0]; NaN > 0 is False
PositiveWeight(r) == ~r["WEIGHT"].nan /\ r["WEIGHT"].val > 0
\* line 125
AgeNotNa(r) == r["age_category"] # None
\* line 126
StructureNotNa(r) == r["structure_type"] # None

FilterValid(rows) ==
    SelectSeq(SelectSeq(SelectSeq(rows, PositiveWeight), AgeNotNa), StructureNotNa)

load_and_process_data(cols, rows) ==
    [columns |-> cols \cup {"age_category", "structure_type", "has_accessibility_needs"},
     rows    |-> FilterValid([i \in DOMAIN rows |-> RecodeRow(rows[i])])]

\* pd.read_csv(usecols=columns_needed) raises ValueError when the header
\* lacks any of the listed columns
ReadCsvRaises(header) == ~(columns_needed \subseteq header)

(***************************************************************************)
(* calculate_feature_prevalence                                            *)
(***************************************************************************)
\* 'all' taken as the households without needs
NeedsFilterAllIsWithout(rows, needs_filter) ==
    IF needs_filter = "with_needs"
    THEN SelectSeq(rows, LAMBDA r : r["has_accessibility_needs"])
    ELSE SelectSeq(rows, LAMBDA r : ~r["has_accessibility_needs"])

\* lines 149-152
NeedsFilter(rows, needs_filter) ==
    IF needs_filter = "with_needs"
    THEN SelectSeq(rows, LAMBDA r : r["has_accessibility_needs"])
    ELSE IF needs_filter = "without_needs"
    THEN SelectSeq(rows, LAMBDA r : ~r["has_accessibility_needs"])
    ELSE rows

\* groupby(...) sorts the observed keys; Python string order of the labels
SortedLabels(group_var) ==
    IF group_var = "age_category"
    THEN <<"1960-1979", "1980-1999", "2000-2009", "2010 or later", "Before 1960">>
    ELSE <<"2-4 units", "5-49 units", "50+ units", "Mobile home/other",
           "Single-family attached", "Single-family detached">>

\* the lambda of groupby(...).apply: one group x -> its two measures
GroupMeasures(x) ==
    LET num == FloatSum([i \in DOMAIN x |-> x[i]["has_feature"] * x[i]["WEIGHT"].val])
        den == FloatSum([i \in DOMAIN x |-> x[i]["WEIGHT"].val])
    IN  [percent_with_feature |-> FloatDiv(FloatMul(F100, num), den),
         total_units          |-> den]

\* df_valid.groupby(group_var).apply(...).reset_index() with the two tag
\* columns; a key with no row (and a NaN key) forms no group
GroupbyApply(df_valid, group_var, feature_name, needs_filter) ==
    LET keys == SelectSeq(SortedLabels(group_var),
                          LAMBDA g : \E i \in DOMAIN df_valid : df_valid[i][group_var] = g)
    IN  [k \in DOMAIN keys |->
            (group_var :> keys[k])
            @@ GroupMeasures(SelectSeq(df_valid, LAMBDA r : r[group_var] = keys[k]))
            @@ [feature |-> feature_name, needs_filter |-> needs_filter]]

\* every response other than Yes counted as absent
ValidResponsesAnyCode(rows, feature_var) ==
    [i \in DOMAIN rows |->
        rows[i] @@ [has_feature |-> IF rows[i][feature_var] = S1 THEN 1 ELSE 0]]

\* lines 156-157
ValidResponses(rows, feature_var) ==
    LET valid == SelectSeq(rows, LAMBDA r : r[feature_var] \in {S1, S2})
    IN  [i \in DOMAIN valid |->
            valid[i] @@ [has_feature |-> IF valid[i][feature_var] = S1 THEN 1 ELSE 0]]

calculate_feature_prevalence(rows, group_var, feature_var, feature_name, needs_filter) ==
    GroupbyApply(ValidResponses(NeedsFilter(rows, needs_filter), feature_var),
                 group_var, feature_name, needs_filter)

(***************************************************************************)
(* generate_summaries                                                      *)
(***************************************************************************)
CompositeName == "Single-floor living (bed + bath on entry)"

\* the two validity tests joined with | instead of &
CompositeValidEither(rows, needs_filter) ==
    LET df_filtered ==
            IF needs_filter = "with_needs"
            THEN SelectSeq(rows, LAMBDA r : r["has_accessibility_needs"])
            ELSE IF needs_filter = "without_needs"
            THEN SelectSeq(rows, LAMBDA r : ~r["has_accessibility_needs"])
            ELSE rows
        valid == SelectSeq(df_filtered,
                     LAMBDA r : r["HABEDENTRY"] \in {S1, S2} \/ r["HABATHENTRY"] \in {S1, S2})
    IN  [i \in DOMAIN valid |->
            valid[i] @@ [has_feature |->
                IF valid[i]["HABEDENTRY"] = S1 /\ valid[i]["HABATHENTRY"] = S1
                THEN 1 ELSE 0]]

\* lines 201-208
CompositeValid(rows, needs_filter) ==
    LET df_filtered ==
            IF needs_filter = "with_needs"
            THEN SelectSeq(rows, LAMBDA r : r["has_accessibility_needs"])
            ELSE IF needs_filter = "without_needs"
            THEN SelectSeq(rows, LAMBDA r : ~r["has_accessibility_needs"])
            ELSE rows
        valid == SelectSeq(df_filtered,
                     LAMBDA r : r["HABEDENTRY"] \in {S1, S2} /\ r["HABATHENTRY"] \in {S1, S2})
    IN  [i \in DOMAIN valid |->
            valid[i] @@ [has_feature |->
                IF valid[i]["HABEDENTRY"] = S1 /\ valid[i]["HABATHENTRY"] = S1
                THEN 1 ELSE 0]]

\* lines 210-230
Composite(d, group_var, needs_filter) ==
    IF "HABEDENTRY" \in d.columns /\ "HABATHENTRY" \in d.columns
    THEN GroupbyApply(CompositeValid(d.rows, needs_filter), group_var,
                      CompositeName, needs_filter)
    ELSE <<>>

Selectors == <<"all", "with_needs">>

\* the frames appended to summaries_by_age (or summaries_by_structure) in
\* one pass of the needs_filter loop
SummariesFor(d, group_var, needs_filter) ==
    Concat([i \in DOMAIN ACCESSIBILITY_VARS |->
               IF ACCESSIBILITY_VARS[i].var \in d.columns
               THEN calculate_feature_prevalence(d.rows, group_var,
                        ACCESSIBILITY_VARS[i].var, ACCESSIBILITY_VARS[i].name,
                        needs_filter)
               ELSE <<>>])
    \o Composite(d, group_var, needs_filter)

\* pd.concat(summaries_by_..., ignore_index=True)
SummaryTable(d, group_var) ==
    Concat([s \in DOMAIN Selectors |-> SummariesFor(d, group_var, Selectors[s])])

\* int(df['WEIGHT'].sum()), len(df)
Metadata(d) ==
    [total_units |-> FloatSum([i \in DOMAIN d.rows |-> d.rows[i]["WEIGHT"].val]) \div Scale,
     sample_size |-> Len(d.rows)]

\* some groupby(...).apply(...) of the run is over an empty frame.  pandas
\* versions differ there: the older ones return an empty frame, the newer
\* ones return one that already holds the group column, on which
\* reset_index() raises ValueError
SomeEmptyApply(d) ==
    \E s \in DOMAIN Selectors :
       \/ \E i \in DOMAIN ACCESSIBILITY_VARS :
             /\ ACCESSIBILITY_VARS[i].var \in d.columns
             /\ ValidResponses(NeedsFilter(d.rows, Selectors[s]),
                               ACCESSIBILITY_VARS[i].var) = <<>>
       \/ /\ "HABEDENTRY" \in d.columns /\ "HABATHENTRY" \in d.columns
          /\ CompositeValid(d.rows, Selectors[s]) = <<>>

\* pd.concat([]) raises ValueError: no frame was appended at all
NothingToConcat(d) ==
    /\ \A i \in DOMAIN ACCESSIBILITY_VARS : ACCESSIBILITY_VARS[i].var \notin d.columns
    /\ ~("HABEDENTRY" \in d.columns /\ "HABATHENTRY" \in d.columns)

(***************************************************************************)
(* export_json                                                             *)
(***************************************************************************)
FileNames == <<"accessibility_by_age.json", "accessibility_by_structure.json",
               "metadata.json">>

NoFiles == [f \in Range(FileNames) |-> "absent"]

\* the files after the first k writes completed; when the run stops inside
\* write k + 1, that file was either not created or is left half-written
FilesAfter(k, partial) ==
    [f \in Range(FileNames) |->
        IF \E i \in 1..k : FileNames[i] = f THEN "complete"
        ELSE IF partial /\ k < Len(FileNames) /\ FileNames[k + 1] = f THEN "partial"
        ELSE "absent"]

(***************************************************************************)
(* The input file                                                          *)
(***************************************************************************)
Yes           == Quote(<<"1">>)
No            == Quote(<<"2">>)
NotApplicable == Quote(<<"-", "6">>)
NotReported   == Quote(<<"-", "9">>)

AllYes  == [c \in FeatureCols |-> Yes]
NoNeeds == [c \in NeedCols |-> No]

Row(w, y, u, fc, nc) ==
    [c \in columns_needed |->
        CASE c = "WEIGHT"     -> w
          [] c = "YRBUILT"    -> y
          [] c = "UNITSIZE"   -> u
          [] c \in FeatureCols -> fc[c]
          [] OTHER            -> nc[c]]

With(f, c, v) == [f EXCEPT ![c] = v]

U1 == Quote(<<"1">>)

\* weights: missing, negative, zero and two positive ones
WeightRows ==
    {Row(w, Num(1959), U1, AllYes, NoNeeds) :
        w \in {NaN, Num(-11), Num(0), Num(11), Num(40)}}

\* every cut point of categorize_age from both sides, every key of
\* UNITSIZE_BROAD, and the unmapped values of both columns
YearUnitRows ==
    {Row(Num(40), p[1], p[2], AllYes, NoNeeds) :
        p \in {<<Num(1960), <<"2">>>>,
               <<Num(1979), Quote(<<"3">>)>>,
               <<Num(1980), Quote(<<"4">>)>>,
               <<Num(1999), Quote(<<"5">>)>>,
               <<Num(2000), Quote(<<"6">>)>>,
               <<Num(2009), Quote(<<"7">>)>>,
               <<Num(2010), Quote(<<"8">>)>>,
               <<Num(1959), Quote(<<"9">>)>>,
               <<NaN,       U1>>,
               <<Num(-1),   U1>>,
               <<Num(1959), NotApplicable>>,
               <<Num(1959), StrNaN>>}}

\* responses of one simple feature and of the two entry-level features
FeatureRows ==
    {Row(Num(11), Num(1959), U1, With(AllYes, "NOSTEP", v), NoNeeds) :
        v \in {No, NotApplicable, StrNaN}}
    \cup
    {Row(Num(11), Num(1959), U1,
         With(With(AllYes, "HABEDENTRY", p[1]), "HABATHENTRY", p[2]), NoNeeds) :
        p \in {<<Yes, No>>, <<No, No>>, <<NotApplicable, Yes>>, <<No, NotReported>>}}

\* households with accessibility needs
NeedsRows ==
    {Row(Num(11), Num(1959), U1, p[1], p[2]) :
        p \in {<<AllYes, With(NoNeeds, "CANE", Yes)>>,
               <<AllYes, [c \in NeedCols |-> NotApplicable]>>,
               <<With(AllYes, "NOSTEP", No), With(NoNeeds, "HAGETBATH", Yes)>>,
               <<With(AllYes, "NOSTEP", NotApplicable), With(NoNeeds, "HHWALK", Yes)>>,
               <<With(AllYes, "HABEDENTRY", NotApplicable),
                 With(NoNeeds, "HAGETHOME", Yes)>>}}

RowDomain == WeightRows \cup YearUnitRows \cup FeatureRows \cup NeedsRows

SeqsUpTo(S, n) == UNION {[1..k -> S] : k \in 0..n}

\* a complete header, or one that lacks a single needed column
Headers == {columns_needed} \cup {columns_needed \ {c} : c \in columns_needed}

\* read_csv rejects a file from its header alone, so the files with an
\* incomplete header hold copies of one row
InputRows(header) ==
    IF header = columns_needed
    THEN SeqsUpTo(RowDomain, MaxRows)
    ELSE SeqsUpTo({[c \in header |-> Row(Num(40), Num(1959), U1, AllYes, NoNeeds)[c]]},
                  MaxRows)

(***************************************************************************)
(* __main__                                                                *)
(***************************************************************************)
EmptyFrame == [columns |-> {}, rows |-> <<>>]
NoMetadata == [total_units |-> 0, sample_size |-> 0]

Init ==
    /\ input_columns \in Headers
    /\ input_rows \in InputRows(input_columns)
    /\ df = EmptyFrame
    /\ by_age = <<>>
    /\ by_structure = <<>>
    /\ metadata = NoMetadata
    /\ files = NoFiles
    /\ pc = "start"

\* the interpreter exits: nothing of the run remains but its files
Exit ==
    /\ df' = EmptyFrame
    /\ by_age' = <<>>
    /\ by_structure' = <<>>
    /\ metadata' = NoMetadata
    /\ UNCHANGED <<input_columns, input_rows>>

\* df = load_and_process_data()
LoadAndProcessData ==
    /\ pc = "start"
    /\ ~ReadCsvRaises(input_columns)
    /\ df' = load_and_process_data(columns_needed,
                 [i \in DOMAIN input_rows |-> [c \in columns_needed |-> input_rows[i][c]]])
    /\ pc' = "loaded"
    /\ UNCHANGED <<input_columns, input_rows, by_age, by_structure, metadata, files>>

\* read_csv raises: the run ends with a traceback
LoadRaises ==
    /\ pc = "start"
    /\ ReadCsvRaises(input_columns)
    /\ pc' = "load_failed"
    /\ UNCHANGED <<input_columns, input_rows, df, by_age, by_structure, metadata, files>>

\* data = generate_summaries(df)
GenerateSummaries ==
    /\ pc = "loaded"
    /\ ~NothingToConcat(df)
    /\ by_age' = SummaryTable(df, "age_category")
    /\ by_structure' = SummaryTable(df, "structure_type")
    /\ metadata' = Metadata(df)
    /\ pc' = "summarized"
    /\ UNCHANGED <<input_columns, input_rows, df, files>>

\* generate_summaries raises
GenerateSummariesRaises ==
    /\ pc = "loaded"
    /\ SomeEmptyApply(df) \/ NothingToConcat(df)
    /\ pc' = "summaries_failed"
    /\ df' = EmptyFrame
    /\ UNCHANGED <<input_columns, input_rows, by_age, by_structure, metadata, files>>

\* export_json(data): the three writes all succeed
ExportJson ==
    /\ pc = "summarized"
    /\ files' = FilesAfter(Len(FileNames), FALSE)
    /\ pc' = "done"
    /\ Exit

\* export_json raises OSError in mkdir or in one of the three writes
ExportJsonRaises ==
    /\ pc = "summarized"
    /\ \E k \in 0..(Len(FileNames) - 1), partial \in BOOLEAN :
          files' = FilesAfter(k, partial)
    /\ pc' = "export_failed"
    /\ Exit

Next ==
    \/ LoadAndProcessData
    \/ LoadRaises
    \/ GenerateSummaries
    \/ GenerateSummariesRaises
    \/ ExportJson
    \/ ExportJsonRaises

Spec == Init /\ [][Next]_vars

Failed == {"load_failed", "summaries_failed", "export_failed"}

TypeOK ==
    /\ pc \in {"start", "loaded", "summarized", "done"} \cup Failed
    /\ \A f \in Range(FileNames) : files[f] \in {"absent", "partial", "complete"}

(***************************************************************************)
(* Properties                                                              *)
(***************************************************************************)
GroupVars == {"age_category", "structure_type"}
AllSelectors == {"all", "with_needs", "without_needs"}
Loaded == pc \in {"loaded", "summarized"}
Summarized == pc = "summarized"

Table(group_var) == IF group_var = "age_category" THEN by_age ELSE by_structure

\* membership of a row of df in a sub-population
InSelector(r, needs_filter) ==
    \/ needs_filter = "all"
    \/ needs_filter = "with_needs" /\ r["has_accessibility_needs"]
    \/ needs_filter = "without_needs" /\ ~r["has_accessibility_needs"]

Weights(rows) == [i \in DOMAIN rows |-> rows[i]["WEIGHT"].val]

Percent(yes, total) == FloatDiv(FloatMul(F100, yes), total)

\* the two measures the claim states for the cell (g, feature_var, nf) of df
ClaimedMeasures(gv, g, var, nf) ==
    LET cell == SelectSeq(df.rows, LAMBDA r :
                    /\ InSelector(r, nf)
                    /\ r[gv] = g
                    /\ r[var] \in {S1, S2})
        yes   == SelectSeq(cell, LAMBDA r : r[var] = S1)
        total == FloatSum(Weights(cell))
    IN  [percent_with_feature |-> Percent(FloatSum(Weights(yes)), total),
         total_units          |-> total]

\* C1: each row that calculate_feature_prevalence returns for group g has
\* total_units = the sum of WEIGHT over the selector-matching rows of group g
\* coded '1' or '2', and percent_with_feature = 100 * (the sum over those
\* coded '1') / total_units; every other code adds to neither sum.  It holds
\* of the function on the loaded frame for the three selectors, and of the
\* rows of the simple features in the two tables.
C1_PrevalenceExact ==
    /\ pc = "loaded" =>
        \A gv \in GroupVars, i \in DOMAIN ACCESSIBILITY_VARS, nf \in AllSelectors :
            LET var == ACCESSIBILITY_VARS[i].var
                out == calculate_feature_prevalence(df.rows, gv, var,
                           ACCESSIBILITY_VARS[i].name, nf)
            IN  \A row \in Range(out) :
                    LET m == ClaimedMeasures(gv, row[gv], var, nf)
                    IN  /\ row.total_units = m.total_units
                        /\ row.percent_with_feature = m.percent_with_feature
    /\ pc = "summarized" =>
        \A gv \in GroupVars : \A row \in Range(Table(gv)) :
            \A i \in DOMAIN ACCESSIBILITY_VARS :
                row.feature = ACCESSIBILITY_VARS[i].name =>
                    LET m == ClaimedMeasures(gv, row[gv], ACCESSIBILITY_VARS[i].var,
                                             row.needs_filter)
                    IN  /\ row.total_units = m.total_units
                        /\ row.percent_with_feature = m.percent_with_feature

\* a group holds a Yes row and a row coded neither Yes nor No, and its
\* emitted row counts the first without the second
C1_Witness ==
    /\ pc = "summarized"
    /\ \E j \in DOMAIN by_age, a, b \in DOMAIN df.rows :
          /\ by_age[j].feature = "No-step entrance"
          /\ by_age[j].needs_filter = "all"
          /\ df.rows[a]["age_category"] = by_age[j]["age_category"]
          /\ df.rows[b]["age_category"] = by_age[j]["age_category"]
          /\ df.rows[a]["NOSTEP"] = S1
          /\ df.rows[b]["NOSTEP"] = <<"-", "6">>
          /\ by_age[j].total_units = df.rows[a]["WEIGHT"].val

\* C2: every row of both tables has 0 <= percent_with_feature <= 100.
C2_PercentInRange ==
    \A gv \in GroupVars : \A j \in DOMAIN Table(gv) :
        LET p == Table(gv)[j].percent_with_feature
        IN  ~p.nan /\ 0 <= p.val /\ p.val <= F100

\* C3: every row of both tables has total_units > 0 (simple and composite).
C3_TotalUnitsPositive ==
    \A gv \in GroupVars : \A j \in DOMAIN Table(gv) : Table(gv)[j].total_units > 0

\* a group has a simple and a composite row for all households, and its
\* with_needs cells, which hold no record, are not in the table
C3_Witness ==
    /\ pc = "summarized"
    /\ \E j, k \in DOMAIN by_structure :
          /\ by_structure[j].feature = "No-step entrance"
          /\ by_structure[k].feature = CompositeName
          /\ by_structure[j]["structure_type"] = by_structure[k]["structure_type"]
          /\ \A m \in DOMAIN by_structure :
                by_structure[m]["structure_type"] = by_structure[j]["structure_type"]
                   => by_structure[m].needs_filter = "all"

AgeLabels == {"Before 1960", "1960-1979", "1980-1999", "2000-2009", "2010 or later"}

\* C4: categorize_age gives year < 1960 'Before 1960', [1960, 1980)
\* '1960-1979', [1980, 2000) '1980-1999', [2000, 2010) '2000-2009', >= 2010
\* '2010 or later', and no category for a missing or negative year.
C4_AgeBoundaries ==
    /\ Loaded =>
        \A i \in DOMAIN df.rows :
            LET y == df.rows[i]["YRBUILT"]
                a == df.rows[i]["age_category"]
            IN  /\ ~y.nan /\ y.val >= 0
                /\ a \in AgeLabels
                /\ (a = "Before 1960")   <=> (y.val < 1960)
                /\ (a = "1960-1979")     <=> (1960 <= y.val /\ y.val < 1980)
                /\ (a = "1980-1999")     <=> (1980 <= y.val /\ y.val < 2000)
                /\ (a = "2000-2009")     <=> (2000 <= y.val /\ y.val < 2010)
                /\ (a = "2010 or later") <=> (y.val >= 2010)
    /\ Loaded =>
        \A i \in DOMAIN input_rows :
            LET y == input_rows[i]["YRBUILT"]
            IN  (y.nan \/ y.val < 0) <=> (RecodeRow(input_rows[i])["age_category"] = None)

\* a year on a cut point is in the upper category, next to a dropped row
\* whose year is missing or negative
C4_Witness ==
    /\ pc = "loaded"
    /\ \E i \in DOMAIN df.rows :
          /\ df.rows[i]["YRBUILT"].val \in {1960, 1980, 2000, 2010}
          /\ df.rows[i]["age_category"] \in
                {"1960-1979", "1980-1999", "2000-2009", "2010 or later"}
    /\ \E i \in DOMAIN input_rows :
          input_rows[i]["YRBUILT"].nan \/ input_rows[i]["YRBUILT"].val < 0
    /\ Len(df.rows) = 1

UnitCodes == {<<"1">>, <<"2">>, <<"3">>, <<"4">>, <<"5">>, <<"6">>, <<"7">>, <<"8">>, <<"9">>}

\* an input row that passes all three tests of the claim
FullyValid(r) ==
    /\ ~r["WEIGHT"].nan /\ r["WEIGHT"].val > 0
    /\ ~r["YRBUILT"].nan /\ r["YRBUILT"].val >= 0
    /\ r["UNITSIZE"] \in UnitCodes

\* the rows of the input file, cleaned and labelled, before any filtering
Recoded == [i \in DOMAIN input_rows |-> RecodeRow(input_rows[i])]

\* whether a cleaned row answers the feature of a table row with Yes or No
AnswersFeature(r, feature_name) ==
    IF feature_name = CompositeName
    THEN r["HABEDENTRY"] \in {S1, S2} /\ r["HABATHENTRY"] \in {S1, S2}
    ELSE \E i \in DOMAIN ACCESSIBILITY_VARS :
            /\ ACCESSIBILITY_VARS[i].name = feature_name
            /\ r[ACCESSIBILITY_VARS[i].var] \in {S1, S2}

\* C5: a record with a non-positive or missing weight, a missing or negative
\* year built, or a units-in-structure code outside '1'..'9' adds to no row
\* of either table, and no row carries a missing group label.
C5_InvalidExcludedFromBoth ==
    Summarized =>
    \A gv \in GroupVars : \A j \in DOMAIN Table(gv) :
        LET row == Table(gv)[j]
            contributors == SelectSeq(Recoded, LAMBDA r :
                                /\ FullyValid(r)
                                /\ r[gv] = row[gv]
                                /\ InSelector(r, row.needs_filter)
                                /\ AnswersFeature(r, row.feature))
        IN  /\ row[gv] # None
            /\ row.total_units = FloatSum(Weights(contributors))

\* the file holds a row that fails in one dimension only (its structure
\* code, its year or its weight) beside a valid row, and rows are emitted
C5_Witness ==
    /\ pc = "summarized"
    /\ by_age # <<>> /\ by_structure # <<>>
    /\ \E i \in DOMAIN Recoded :
          /\ Recoded[i]["structure_type"] = None
          /\ Recoded[i]["age_category"] # None
          /\ PositiveWeight(Recoded[i])
    /\ Len(df.rows) = 1

\* C6: a composite row counts exactly the records whose HABEDENTRY and
\* HABATHENTRY are both '1' or '2' (total_units), and among them as present
\* exactly those with both '1' (percent_with_feature).
C6_CompositeThreeValued ==
    Summarized =>
    \A gv \in GroupVars :
        /\ \A j \in DOMAIN Table(gv) :
              Table(gv)[j].feature = CompositeName =>
                 LET row  == Table(gv)[j]
                     cell == SelectSeq(df.rows, LAMBDA r :
                                 /\ InSelector(r, row.needs_filter)
                                 /\ r[gv] = row[gv]
                                 /\ r["HABEDENTRY"] \in {S1, S2}
                                 /\ r["HABATHENTRY"] \in {S1, S2})
                     both == SelectSeq(cell, LAMBDA r :
                                 r["HABEDENTRY"] = S1 /\ r["HABATHENTRY"] = S1)
                 IN  /\ row.total_units = FloatSum(Weights(cell))
                     /\ row.percent_with_feature
                            = Percent(FloatSum(Weights(both)), row.total_units)
        /\ \A i \in DOMAIN df.rows, nf \in Range(Selectors) :
              (/\ InSelector(df.rows[i], nf)
               /\ df.rows[i]["HABEDENTRY"] \in {S1, S2}
               /\ df.rows[i]["HABATHENTRY"] \in {S1, S2})
              => \E j \in DOMAIN Table(gv) :
                    /\ Table(gv)[j].feature = CompositeName
                    /\ Table(gv)[j].needs_filter = nf
                    /\ Table(gv)[j][gv] = df.rows[i][gv]

\* a group holds a (Yes, No) record, counted as absent, and a
\* (Not applicable, Yes) record, left out of the denominator
C6_Witness ==
    /\ pc = "summarized"
    /\ \E j \in DOMAIN by_age, a, b \in DOMAIN df.rows :
          /\ by_age[j].feature = CompositeName
          /\ by_age[j].needs_filter = "all"
          /\ df.rows[a]["HABEDENTRY"] = S1 /\ df.rows[a]["HABATHENTRY"] = S2
          /\ df.rows[b]["HABEDENTRY"] = <<"-", "6">> /\ df.rows[b]["HABATHENTRY"] = S1
          /\ df.rows[a]["age_category"] = by_age[j]["age_category"]
          /\ df.rows[b]["age_category"] = by_age[j]["age_category"]
          /\ by_age[j].total_units = df.rows[a]["WEIGHT"].val
          /\ by_age[j].percent_with_feature = Num(0)

\* C7: every with_needs row has an 'all' row for the same group label and
\* feature in the same table, whose total_units is at least as large.
C7_WithNeedsNested ==
    \A gv \in GroupVars : \A j \in DOMAIN Table(gv) :
        Table(gv)[j].needs_filter = "with_needs" =>
            \E k \in DOMAIN Table(gv) :
                /\ Table(gv)[k].needs_filter = "all"
                /\ Table(gv)[k].feature = Table(gv)[j].feature
                /\ Table(gv)[k][gv] = Table(gv)[j][gv]
                /\ Table(gv)[j].total_units <= Table(gv)[k].total_units

\* a with_needs row whose 'all' row counts strictly more units
C7_Witness ==
    /\ pc = "summarized"
    /\ \E j, k \in DOMAIN by_structure :
          /\ by_structure[j].needs_filter = "with_needs"
          /\ by_structure[k].needs_filter = "all"
          /\ by_structure[k].feature = by_structure[j].feature
          /\ by_structure[k]["structure_type"] = by_structure[j]["structure_type"]
          /\ by_structure[j].total_units < by_structure[k].total_units

FeatureNames(table, needs_filter) ==
    {table[j].feature : j \in {m \in DOMAIN table : table[m].needs_filter = needs_filter}}

\* C8: for each selector the feature names in by_age are the feature names
\* in by_structure.
C8_SameFeatureNames ==
    \A nf \in Range(Selectors) :
        FeatureNames(by_age, nf) = FeatureNames(by_structure, nf)

\* a feature with no valid response at all is in neither table while other
\* features are in both
C8_Witness ==
    /\ pc = "summarized"
    /\ "No-step entrance" \notin FeatureNames(by_age, "all")
    /\ "No-step entrance" \notin FeatureNames(by_structure, "all")
    /\ "Wheelchair ramp" \in FeatureNames(by_age, "all")
    /\ "Wheelchair ramp" \in FeatureNames(by_structure, "all")

\* C9: a run that failed has written none of the three output files.
C9_AllOrNothing ==
    pc \in Failed => \A f \in Range(FileNames) : files[f] = "absent"

\* C10: a file that lacks only columns of optional features (keys of
\* ACCESSIBILITY_VARS) does not make the run fail in load_and_process_data.
C10_OptionalColumnSkipped ==
    (/\ {"WEIGHT", "YRBUILT", "UNITSIZE"} \subseteq input_columns
     /\ (columns_needed \ input_columns) # {}
     /\ (columns_needed \ input_columns) \subseteq FeatureCols)
    => pc # "load_failed"

====
